---------------------------- MODULE Spec2Model ----------------------------
(***************************************************************************)
(* Model of the BTHome v2 service-data decoder of bthome/src/lib.rs.       *)
(*                                                                         *)
(* Bytes are integers 0..255, a buffer is a sequence of bytes and the      *)
(* std::io::Cursor is the number of bytes already read.  A 64-bit integer  *)
(* is kept as its eight two's-complement bytes, least significant first,   *)
(* so every quantity of the model stays within 32-bit arithmetic.          *)
(* An f32 is kept as sign, 24-bit significand and binary exponent.         *)
(***************************************************************************)
EXTENDS Integers, Sequences, FiniteSets, TLC

VARIABLES
    data,       \* the &[u8] handed to parse_service_data
    cursor,     \* Cursor position: bytes read so far
    pc,         \* "header", "loop" or "returned"
    objects,    \* service_data.objects, the Vec<Object> being built
    flags,      \* encrypted / trigger_based / version of service_data
    result,     \* the Result<ServiceData, Error> returned, "Pending" before
    spans,      \* history: bytes read for each pushed object (id + value)
    iters,      \* history: loop iterations entered
    dec,        \* decoder exercise: the value_parsers! row applied
    wire,       \* decoder exercise: the bytes offered to the decoder
    out         \* decoder exercise: what the decoder returned

vars == <<data, cursor, pc, objects, flags, result, spans, iters, dec, wire, out>>

-----------------------------------------------------------------------------
(* Bounds of the explored input space *)

\* longest buffer built freely from StreamBytes
MaxLen == 6
\* longest Raw/Text body of the well-formed single-record buffers
MaxText == 2

-----------------------------------------------------------------------------
(* Small arithmetic helpers *)

RECURSIVE Pow2(_)
Pow2(n) == IF n = 0 THEN 1 ELSE 2 * Pow2(n - 1)

\* number of significant bits of a byte (0 for 0)
RECURSIVE BitLen(_)
BitLen(b) == IF b = 0 THEN 0 ELSE 1 + BitLen(b \div 2)

\* bit k (0 = least significant) of byte b
Bit(b, k) == (b \div Pow2(k)) % 2

RECURSIVE Sum(_)
Sum(s) == IF s = <<>> THEN 0 ELSE Head(s) + Sum(Tail(s))

Zeros(n) == [i \in 1..n |-> 0]

-----------------------------------------------------------------------------
(* Error values *)

IoError(k) == [kind |-> "IoError", io |-> k]
UnexpectedEof == IoError("UnexpectedEof")
InvalidTextEncoding == [kind |-> "InvalidTextEncoding"]
InvalidObjectId(v) == [kind |-> "InvalidObjectId", byte |-> v]
InvalidButtonEvent(v) == [kind |-> "InvalidButtonEvent", byte |-> v]
InvalidDimmerEvent(v) == [kind |-> "InvalidDimmerEvent", byte |-> v]

\* results of the readers: the value or the error, and the cursor after it
OkAt(v, p) == [ok |-> TRUE, value |-> v, pos |-> p]
Fail(e, p) == [ok |-> FALSE, error |-> e, pos |-> p]

-----------------------------------------------------------------------------
(* Cursor<&[u8]>::read_exact: n bytes from position pos, or UnexpectedEof  *)
(* when fewer than n remain.                                               *)

\* variant: the bounds test is off by one, a read one byte short passes
read_exact_off_by_one(d, pos, n) ==
    IF pos + n <= Len(d) + 1
    THEN [ok |-> TRUE, bytes |-> SubSeq(d \o <<0>>, pos + 1, pos + n),
          pos |-> pos + n]
    ELSE Fail(UnexpectedEof, pos)

read_exact(d, pos, n) ==
    IF pos + n <= Len(d)
    THEN [ok |-> TRUE, bytes |-> SubSeq(d, pos + 1, pos + n), pos |-> pos + n]
    ELSE Fail(UnexpectedEof, pos)

\* where a failed read_exact may leave the cursor: untouched (the pos of
\* the failure above), or at the end of the buffer; the standard library has
\* done both, and the cursor is dropped with the return
FailPos(d, pos) == {pos, Len(d)}

\* the cursor once a reader has returned the error e at position pos
CursorAfter(d, e, pos) == IF e = UnexpectedEof THEN FailPos(d, pos) ELSE {pos}

-----------------------------------------------------------------------------
(* Event enumerations *)

ButtonEvent ==
    { <<\H00, "None">>, <<\H01, "Press">>, <<\H02, "DoublePress">>,
      <<\H03, "TriplePress">>, <<\H04, "LongPress">>,
      <<\H05, "LongDoublePress">>, <<\H06, "LongTriplePress">>,
      <<\H80, "HoldPress">> }

ButtonEventTryFrom(v) ==
    IF \E e \in ButtonEvent : e[1] = v
    THEN [ok |-> TRUE, value |-> (CHOOSE e \in ButtonEvent : e[1] = v)[2]]
    ELSE [ok |-> FALSE, error |-> InvalidButtonEvent(v)]

DimmerEvent ==
    { <<\H00, "None">>, <<\H01, "RotateLeft">>, <<\H02, "RotateRight">> }

DimmerEventTryFrom(v) ==
    IF \E e \in DimmerEvent : e[1] = v
    THEN [ok |-> TRUE, value |-> (CHOOSE e \in DimmerEvent : e[1] = v)[2]]
    ELSE [ok |-> FALSE, error |-> InvalidObjectId(v)]

-----------------------------------------------------------------------------
(* value_parsers!: bttype -> (rtype, rsize, btsize).  rsize is the size of *)
(* the zeroed array, btsize the number of bytes read into its front (rsize *)
(* where the row gives no fourth element).                                 *)

\* variant: array size and read size of the uint24 row exchanged
value_parsers_swapped ==
    [ uint8  |-> [rtype |-> "u8",  rsize |-> 1, btsize |-> 1],
      sint8  |-> [rtype |-> "i8",  rsize |-> 1, btsize |-> 1],
      uint16 |-> [rtype |-> "u16", rsize |-> 2, btsize |-> 2],
      sint16 |-> [rtype |-> "i16", rsize |-> 2, btsize |-> 2],
      uint24 |-> [rtype |-> "u32", rsize |-> 3, btsize |-> 4],
      sint24 |-> [rtype |-> "i32", rsize |-> 4, btsize |-> 3],
      uint32 |-> [rtype |-> "u32", rsize |-> 4, btsize |-> 4],
      sint32 |-> [rtype |-> "i32", rsize |-> 4, btsize |-> 4],
      uint48 |-> [rtype |-> "u64", rsize |-> 8, btsize |-> 6],
      uint64 |-> [rtype |-> "u64", rsize |-> 8, btsize |-> 6] ]

value_parsers ==
    [ uint8  |-> [rtype |-> "u8",  rsize |-> 1, btsize |-> 1],
      sint8  |-> [rtype |-> "i8",  rsize |-> 1, btsize |-> 1],
      uint16 |-> [rtype |-> "u16", rsize |-> 2, btsize |-> 2],
      sint16 |-> [rtype |-> "i16", rsize |-> 2, btsize |-> 2],
      uint24 |-> [rtype |-> "u32", rsize |-> 4, btsize |-> 3],
      sint24 |-> [rtype |-> "i32", rsize |-> 4, btsize |-> 3],
      uint32 |-> [rtype |-> "u32", rsize |-> 4, btsize |-> 4],
      sint32 |-> [rtype |-> "i32", rsize |-> 4, btsize |-> 4],
      uint48 |-> [rtype |-> "u64", rsize |-> 8, btsize |-> 6],
      uint64 |-> [rtype |-> "u64", rsize |-> 8, btsize |-> 6] ]

BtTypes == DOMAIN value_parsers

\* the Rust integer types that are signed
IsSignedType(rtype) == rtype \in {"i8", "i16", "i32", "i64"}

\* `let mut bytes = [0u8; rsize]; read_exact(&mut bytes[..btsize])`: the
\* bytes read, followed by the zeros left in the rest of the array
FillArray(bytes, rsize) == bytes \o Zeros(rsize - Len(bytes))

\* `rtype::from_le_bytes(bytes) as i64`: the array widened to eight bytes,
\* sign-extended from the top bit of the array for a signed rtype
AsI64(rtype, arr) ==
    arr \o [i \in 1..(8 - Len(arr)) |->
              IF IsSignedType(rtype) /\ arr[Len(arr)] >= 128 THEN 255 ELSE 0]

IntValue(b8) == [kind |-> "Int", i64 |-> b8]

\* the rest of int_from::$bttype once read_exact has returned r
IntFromRead(p, r) ==
    IF "panic" \in DOMAIN r THEN r
    ELSE IF ~r.ok THEN Fail(r.error, r.pos)
    ELSE OkAt(IntValue(AsI64(p.rtype, FillArray(r.bytes, p.rsize))), r.pos)

\* a reader of the row p: the slice bytes[..btsize] of an array of rsize
\* bytes panics when btsize > rsize
ReadRow(p, d, pos) ==
    IF p.btsize > p.rsize THEN [ok |-> FALSE, panic |-> TRUE]
    ELSE read_exact(d, pos, p.btsize)

\* int_from::$bttype
int_from(bttype, d, pos) ==
    IntFromRead(value_parsers[bttype], ReadRow(value_parsers[bttype], d, pos))

-----------------------------------------------------------------------------
(* `rtype::from_le_bytes(bytes) as f32`: the nearest f32, ties to even.    *)
(* The result is [neg, mant, exp] standing for (-1)^neg * mant * 2^exp,    *)
(* with exp = 0 and mant < 2^24 when the integer fits 24 bits, and         *)
(* 2^23 <= mant < 2^24 otherwise.                                          *)

\* two's-complement negation of a little-endian byte array
RECURSIVE AddOne(_)
AddOne(arr) ==
    IF arr = <<>> THEN <<>>
    ELSE IF Head(arr) = 255 THEN <<0>> \o AddOne(Tail(arr))
    ELSE <<Head(arr) + 1>> \o Tail(arr)

Negate(arr) == AddOne([i \in 1..Len(arr) |-> 255 - arr[i]])

\* index of the most significant non-zero byte, 0 for the zero array
TopByte(arr) ==
    IF \A i \in 1..Len(arr) : arr[i] = 0 THEN 0
    ELSE CHOOSE i \in 1..Len(arr) :
            arr[i] # 0 /\ \A j \in (i + 1)..Len(arr) : arr[j] = 0

ByteAt(arr, i) == IF i \in 1..Len(arr) THEN arr[i] ELSE 0

\* q (the top 24 bits) rounded up or not, renormalised when it reaches 2^24
RoundUp(neg, q, up, e) ==
    IF up /\ q + 1 = Pow2(24)
    THEN [neg |-> neg, mant |-> Pow2(23), exp |-> e + 1]
    ELSE [neg |-> neg, mant |-> (IF up THEN q + 1 ELSE q), exp |-> e]

\* ties to even: q and r are quotient and remainder by 2^s, sticky tells
\* whether bits below the remainder are set
RoundTie(neg, q, r, half, sticky, e) ==
    RoundUp(neg, q, r > half \/ (r = half /\ (sticky \/ q % 2 = 1)), e)

\* the 32 bits hi:mid, s of them beyond 24, lying e0 bits above bit 0
RoundShift(neg, hi, mid, sticky, s, e0) ==
    RoundTie(neg, hi * Pow2(24 - s) + mid \div Pow2(s), mid % Pow2(s),
             Pow2(s - 1), sticky, s + e0)

\* the magnitude whose most significant non-zero byte is byte t
RoundFrom(neg, mag, t) ==
    IF t <= 3
    THEN [neg |-> neg /\ t # 0, exp |-> 0,
          mant |-> ByteAt(mag, 1) + 256 * ByteAt(mag, 2)
                   + 65536 * ByteAt(mag, 3)]
    ELSE RoundShift(neg, mag[t],
                    mag[t - 3] + 256 * mag[t - 2] + 65536 * mag[t - 1],
                    \E i \in 1..(t - 4) : mag[i] # 0,
                    BitLen(mag[t]), 8 * (t - 4))

RoundF32(neg, mag) == RoundFrom(neg, mag, TopByte(mag))

\* the sign of the array read as rtype
IsNegative(rtype, arr) == IsSignedType(rtype) /\ arr[Len(arr)] >= 128

AsF32(rtype, arr) ==
    IF IsNegative(rtype, arr) THEN RoundF32(TRUE, Negate(arr))
    ELSE RoundF32(FALSE, arr)

\* the f32 product `x * factor` is a function of its two operands; the
\* value keeps the pair, so equal pairs are equal products
FloatValue(x, factor) == [kind |-> "Float", f32 |-> x, factor |-> factor]

\* the rest of float_from::$bttype once read_exact has returned r
FloatFromRead(p, r, factor) ==
    IF "panic" \in DOMAIN r THEN r
    ELSE IF ~r.ok THEN Fail(r.error, r.pos)
    ELSE OkAt(FloatValue(AsF32(p.rtype, FillArray(r.bytes, p.rsize)), factor),
              r.pos)

\* float_from::$bttype
float_from(bttype, d, pos, factor) ==
    FloatFromRead(value_parsers[bttype],
                  ReadRow(value_parsers[bttype], d, pos), factor)

-----------------------------------------------------------------------------
(* The remaining readers *)

read_bool(d, pos) ==
    LET r == read_exact(d, pos, 1)
    IN  IF ~r.ok THEN Fail(r.error, r.pos)
        ELSE OkAt([kind |-> "Bool", bool |-> (r.bytes[1] = 0)], r.pos)

read_bytes(d, pos) ==
    LET size == read_exact(d, pos, 1)
    IN  IF ~size.ok THEN Fail(size.error, size.pos)
        ELSE LET r == read_exact(d, size.pos, size.bytes[1])
             IN  IF ~r.ok THEN Fail(r.error, r.pos)
                 ELSE OkAt([kind |-> "Raw", raw |-> r.bytes], r.pos)

\* String::from_utf8 accepts exactly the well-formed UTF-8 sequences
Cont(b) == b \in 128..191

RECURSIVE ValidUtf8(_)
ValidUtf8(b) ==
    LET n == Len(b)
        Rest(k) == ValidUtf8(SubSeq(b, k + 1, n))
    IN  IF n = 0 THEN TRUE
        ELSE IF b[1] <= 127 THEN Rest(1)
        ELSE IF b[1] \in 194..223
             THEN n >= 2 /\ Cont(b[2]) /\ Rest(2)
        ELSE IF b[1] \in 224..239
             THEN /\ n >= 3
                  /\ b[2] \in (IF b[1] = 224 THEN 160..191
                                ELSE IF b[1] = 237 THEN 128..159
                                ELSE 128..191)
                  /\ Cont(b[3])
                  /\ Rest(3)
        ELSE IF b[1] \in 240..244
             THEN /\ n >= 4
                  /\ b[2] \in (IF b[1] = 240 THEN 144..191
                                ELSE IF b[1] = 244 THEN 128..143
                                ELSE 128..191)
                  /\ Cont(b[3])
                  /\ Cont(b[4])
                  /\ Rest(4)
        ELSE FALSE

read_text(d, pos) ==
    LET size == read_exact(d, pos, 1)
    IN  IF ~size.ok THEN Fail(size.error, size.pos)
        ELSE LET r == read_exact(d, size.pos, size.bytes[1])
             IN  IF ~r.ok THEN Fail(r.error, r.pos)
                 ELSE IF ~ValidUtf8(r.bytes) THEN Fail(InvalidTextEncoding, r.pos)
                 ELSE OkAt([kind |-> "Text", text |-> r.bytes], r.pos)

read_button_event(d, pos) ==
    LET r == read_exact(d, pos, 1)
    IN  IF ~r.ok THEN Fail(r.error, r.pos)
        ELSE LET e == ButtonEventTryFrom(r.bytes[1])
             IN  IF ~e.ok THEN Fail(e.error, r.pos)
                 ELSE OkAt([kind |-> "ButtonEvent", event |-> e.value], r.pos)

read_dimmer_event(d, pos) ==
    LET r == read_exact(d, pos, 2)
    IN  IF ~r.ok THEN Fail(r.error, r.pos)
        ELSE LET e == DimmerEventTryFrom(r.bytes[1])
             IN  IF ~e.ok THEN Fail(e.error, r.pos)
                 ELSE OkAt([kind |-> "DimmerEvent", event |-> e.value,
                            steps |-> r.bytes[2]], r.pos)

-----------------------------------------------------------------------------
(* bthome_objects!: the ObjectId catalog.  Each row is                     *)
(* <<discriminant, variant, reader, bttype, factor>>; bttype is set for    *)
(* int_from:: and float_from:: readers, factor for float_from:: ones.      *)

ObjectId ==
    { <<\H51, "Acceleration", "float_from", "uint16", "0.001">>,
      <<\H01, "Battery", "int_from", "uint8", "">>,
      <<\H12, "CO2", "int_from", "uint16", "">>,
      <<\H56, "Conductivity", "int_from", "uint16", "">>,
      <<\H09, "CountU8", "int_from", "uint8", "">>,
      <<\H3D, "CountU16", "int_from", "uint16", "">>,
      <<\H3E, "CountU32", "int_from", "uint32", "">>,
      <<\H59, "CountI8", "int_from", "sint8", "">>,
      <<\H5A, "CountI16", "int_from", "sint16", "">>,
      <<\H5B, "CountI32", "int_from", "sint32", "">>,
      <<\H43, "CurrentU16", "float_from", "uint16", "0.001">>,
      <<\H5D, "CurrentI16", "float_from", "sint16", "0.001">>,
      <<\H08, "Dewpoint", "float_from", "sint16", "0.01">>,
      <<\H40, "DistanceMM", "int_from", "uint16", "">>,
      <<\H41, "DistanceM", "float_from", "uint16", "0.1">>,
      <<\H42, "Duration", "float_from", "uint24", "0.001">>,
      <<\H4D, "EnergyU32", "float_from", "uint32", "0.001">>,
      <<\H0A, "EngergyU24", "float_from", "uint24", "0.001">>,
      <<\H4B, "GasU24", "float_from", "uint24", "0.001">>,
      <<\H4C, "GasU32", "float_from", "uint32", "0.001">>,
      <<\H52, "Gyroscope", "float_from", "uint16", "0.001">>,
      <<\H03, "HumidityU16", "float_from", "uint16", "0.01">>,
      <<\H2E, "HumidityU8", "int_from", "uint8", "">>,
      <<\H05, "Illuminance", "float_from", "uint24", "0.01">>,
      <<\H06, "MassKg", "float_from", "uint16", "0.01">>,
      <<\H07, "MassLb", "float_from", "uint16", "0.01">>,
      <<\H14, "MoistureSmall", "float_from", "uint16", "0.01">>,
      <<\H2F, "MoistureLarge", "int_from", "uint8", "">>,
      <<\H0D, "PM2d5", "int_from", "uint16", "">>,
      <<\H0E, "PM10", "int_from", "uint16", "">>,
      <<\H0B, "PowerSmall", "float_from", "uint24", "0.01">>,
      <<\H5C, "PowerLarge", "float_from", "sint32", "0.01">>,
      <<\H04, "Pressure", "float_from", "uint24", "0.01">>,
      <<\H54, "Raw", "read_bytes", "", "">>,
      <<\H3F, "Rotation", "float_from", "sint16", "0.1">>,
      <<\H44, "Speed", "float_from", "uint16", "0.01">>,
      <<\H57, "Temperature1", "int_from", "sint8", "">>,
      <<\H58, "Temperature2", "float_from", "sint8", "0.35">>,
      <<\H45, "Temperature3", "float_from", "sint16", "0.1">>,
      <<\H02, "Temperature4", "float_from", "sint16", "0.01">>,
      <<\H53, "Text", "read_text", "", "">>,
      <<\H50, "Timestamp", "int_from", "uint48", "">>,
      <<\H13, "Tvoc", "int_from", "uint16", "">>,
      <<\H0C, "VoltageSmall", "float_from", "uint16", "0.001">>,
      <<\H4A, "VoltageLarge", "float_from", "uint16", "0.1">>,
      <<\H4E, "Volume1", "float_from", "uint32", "0.001">>,
      <<\H47, "Volume2", "float_from", "uint16", "0.1">>,
      <<\H48, "Volume3", "int_from", "uint16", "">>,
      <<\H55, "VolumeStorage", "float_from", "uint32", "0.001">>,
      <<\H49, "VolumeFlowRate", "float_from", "uint16", "0.001">>,
      <<\H46, "UVIndex", "float_from", "uint8", "0.1">>,
      <<\H4F, "Water", "float_from", "uint32", "0.001">>,
      <<\H15, "BatteryLow", "read_bool", "", "">>,
      <<\H16, "BatteryCharging", "read_bool", "", "">>,
      <<\H17, "CarbonMonoxideDetected", "read_bool", "", "">>,
      <<\H18, "Cold", "read_bool", "", "">>,
      <<\H19, "Connectivity", "read_bool", "", "">>,
      <<\H1A, "DoorOpen", "read_bool", "", "">>,
      <<\H1B, "GarageDoorOpen", "read_bool", "", "">>,
      <<\H1C, "GasDetected", "read_bool", "", "">>,
      <<\H0F, "GenericBoolean", "read_bool", "", "">>,
      <<\H1D, "Heat", "read_bool", "", "">>,
      <<\H1E, "LightDetected", "read_bool", "", "">>,
      <<\H1F, "LockUnlocked", "read_bool", "", "">>,
      <<\H20, "MoistureDetected", "read_bool", "", "">>,
      <<\H21, "MotionDetected", "read_bool", "", "">>,
      <<\H22, "MovementDetected", "read_bool", "", "">>,
      <<\H23, "OccupancyDetected", "read_bool", "", "">>,
      <<\H11, "IsOpen", "read_bool", "", "">>,
      <<\H24, "PluggedIn", "read_bool", "", "">>,
      <<\H10, "PowerOn", "read_bool", "", "">>,
      <<\H25, "PresenceAtHome", "read_bool", "", "">>,
      <<\H26, "ProblemDetected", "read_bool", "", "">>,
      <<\H27, "IsRunning", "read_bool", "", "">>,
      <<\H28, "IsSafe", "read_bool", "", "">>,
      <<\H29, "SmokeDetected", "read_bool", "", "">>,
      <<\H2A, "SoundDetected", "read_bool", "", "">>,
      <<\H2B, "TamperDetected", "read_bool", "", "">>,
      <<\H2C, "VibrationDetected", "read_bool", "", "">>,
      <<\H2D, "WindowOpen", "read_bool", "", "">>,
      <<\H3A, "Button", "read_button_event", "", "">>,
      <<\H3C, "Dimmer", "read_dimmer_event", "", "">>,
      <<\HF0, "DeviceTypeId", "int_from", "uint16", "">>,
      <<\HF1, "FirmwareVersionLarge", "int_from", "uint32", "">>,
      <<\HF2, "FirmwareVersionSmall", "int_from", "uint64", "">>,
      <<\H00, "PacketId", "int_from", "uint8", "">> }

ObjectIdCodes == { e[1] : e \in ObjectId }

\* the catalog row of a discriminant
ObjectIdRow(c) == CHOOSE e \in ObjectId : e[1] = c

\* variant: an unknown byte is taken for PacketId instead of rejected
ObjectIdTryFromGuess(v) ==
    [ok |-> TRUE, value |-> IF v \in ObjectIdCodes THEN v ELSE \H00]

\* ObjectId::try_from(u8); an ObjectId is carried as its discriminant
ObjectIdTryFrom(v) ==
    IF v \in ObjectIdCodes THEN [ok |-> TRUE, value |-> v]
    ELSE [ok |-> FALSE, error |-> InvalidObjectId(v)]

\* the `$conv(data, $args)` of a catalog row
ReadValue(row, d, pos) ==
    CASE row[3] = "int_from" -> int_from(row[4], d, pos)
      [] row[3] = "float_from" -> float_from(row[4], d, pos, row[5])
      [] row[3] = "read_bool" -> read_bool(d, pos)
      [] row[3] = "read_bytes" -> read_bytes(d, pos)
      [] row[3] = "read_text" -> read_text(d, pos)
      [] row[3] = "read_button_event" -> read_button_event(d, pos)
      [] row[3] = "read_dimmer_event" -> read_dimmer_event(d, pos)

\* `Ok(Object { object_id, value })`, or the reader's failure passed on
ObjectOf(object_id, r) ==
    IF r.ok THEN OkAt([object_id |-> object_id, value |-> r.value], r.pos)
    ELSE r

\* value_from_raw: the reader of the identifier's row applied at the
\* cursor, its value wrapped into an Object
value_from_raw(object_id, d, pos) ==
    ObjectOf(object_id, ReadValue(ObjectIdRow(object_id), d, pos))

-----------------------------------------------------------------------------
(* parse_service_data *)

RECURSIVE BitAnd(_, _)
BitAnd(a, b) ==
    IF a = 0 \/ b = 0 THEN 0
    ELSE (a % 2) * (b % 2) + 2 * BitAnd(a \div 2, b \div 2)

\* the ServiceData literal built from the header byte, objects still empty
Header(head) ==
    [ encrypted     |-> (BitAnd(head, 1) = 1),
      trigger_based |-> (BitAnd(head, 4) = 1),
      version       |-> head \div 32 ]

ServiceData(f, objs) ==
    [ encrypted |-> f.encrypted, trigger_based |-> f.trigger_based,
      version |-> f.version, objects |-> objs ]

Ok(sd) == [tag |-> "Ok", value |-> sd]
Err(e) == [tag |-> "Err", error |-> e]
Pending == [tag |-> "Pending"]
Panicked == [tag |-> "Panic"]

\* variant: UnexpectedEof inside a value ends the loop like the one between
\* records
PushOrReturnEofBreaks(o) ==
    IF o.ok THEN [step |-> "push", object |-> o.value, pos |-> o.pos]
    ELSE IF "panic" \in DOMAIN o THEN [step |-> "panic"]
    ELSE IF o.error = UnexpectedEof THEN [step |-> "break"]
    ELSE [step |-> "return", error |-> o.error, pos |-> o.pos]

\* lines 379-381: the object is pushed, or `?` returns the reader's error
PushOrReturn(o) ==
    IF o.ok THEN [step |-> "push", object |-> o.value, pos |-> o.pos]
    ELSE IF "panic" \in DOMAIN o THEN [step |-> "panic"]
    ELSE [step |-> "return", error |-> o.error, pos |-> o.pos]

\* variant: an unknown identifier ends the loop instead of failing the call
ResolveIdUnknownBreaks(d, pos, object_id) ==
    IF ~object_id.ok THEN [step |-> "break"]
    ELSE PushOrReturn(value_from_raw(object_id.value, d, pos))

\* lines 378-381: `?` returns the error of ObjectId::try_from, otherwise the
\* value is read at pos, the position after the identifier byte
ResolveId(d, pos, object_id) ==
    IF ~object_id.ok
    THEN [step |-> "return", error |-> object_id.error, pos |-> pos]
    ELSE PushOrReturn(value_from_raw(object_id.value, d, pos))

\* lines 371-378: UnexpectedEof on the identifier byte breaks the loop
\* (read_exact on a Cursor over a slice fails with UnexpectedEof only, so
\* the `else` returning any other IoError is dead)
AfterNextByte(d, next_byte) ==
    IF ~next_byte.ok THEN [step |-> "break"]
    ELSE ResolveId(d, next_byte.pos, ObjectIdTryFrom(next_byte.bytes[1]))

\* one pass through the body of `loop`: the identifier byte is read; at the
\* end of the buffer the loop breaks, otherwise the identifier is resolved
\* and its value read
LoopBody(d, pos) == AfterNextByte(d, read_exact(d, pos, 1))

\* what the loop does with the outcome b of a pass
RECURSIVE RunLoop(_, _, _, _)
Continue(d, f, objs, b) ==
    CASE b.step = "break" -> Ok(ServiceData(f, objs))
      [] b.step = "return" -> Err(b.error)
      [] b.step = "panic" -> Panicked
      [] b.step = "push" -> RunLoop(d, b.pos, f, Append(objs, b.object))

\* the whole of `loop` from position pos with objs already pushed
RunLoop(d, pos, f, objs) == Continue(d, f, objs, LoopBody(d, pos))

\* lines 361-383 once the header byte has been read
AfterHeader(d, head) ==
    IF ~head.ok THEN Err(head.error)
    ELSE RunLoop(d, head.pos, Header(head.bytes[1]), <<>>)

\* parse_service_data as a function of the buffer
parse_service_data(d) == AfterHeader(d, read_exact(d, 0, 1))

NoFlags == [encrypted |-> FALSE, trigger_based |-> FALSE, version |-> 0]

\* lines 360-368: the cursor is created and the header byte read
ParseHeader ==
    /\ pc = "header"
    /\ \E head \in {read_exact(data, cursor, 1)} :
         IF head.ok
         THEN /\ flags' = Header(head.bytes[1])
              /\ cursor' = head.pos
              /\ pc' = "loop"
              /\ UNCHANGED result
         ELSE /\ result' = Err(head.error)
              /\ cursor' \in CursorAfter(data, head.error, head.pos)
              /\ pc' = "returned"
              /\ UNCHANGED flags
    /\ UNCHANGED <<data, objects, spans, iters, dec, wire, out>>

\* lines 369-383: one iteration of the loop, and the return that ends it
LoopIteration ==
    /\ pc = "loop"
    /\ iters' = iters + 1
    /\ \E b \in {LoopBody(data, cursor)} :
         CASE b.step = "push" ->
                /\ objects' = Append(objects, b.object)
                /\ spans' = Append(spans, b.pos - cursor)
                /\ cursor' = b.pos
                /\ UNCHANGED <<pc, result>>
           [] b.step = "break" ->
                /\ result' = Ok(ServiceData(flags, objects))
                /\ cursor' \in FailPos(data, cursor)
                /\ pc' = "returned"
                /\ UNCHANGED <<objects, spans>>
           [] b.step = "return" ->
                /\ result' = Err(b.error)
                /\ cursor' \in CursorAfter(data, b.error, b.pos)
                /\ pc' = "returned"
                /\ UNCHANGED <<objects, spans>>
           [] b.step = "panic" ->
                /\ result' = Panicked
                /\ pc' = "returned"
                /\ UNCHANGED <<cursor, objects, spans>>
    /\ UNCHANGED <<data, flags, dec, wire, out>>

-----------------------------------------------------------------------------
(* The buffers and decoder inputs explored *)

\* all sequences over S of length exactly n / at most n
SeqsOfLen(S, n) == [1..n -> S]

SeqsUpTo(S, n) == UNION { SeqsOfLen(S, k) : k \in 0..n }

\* bytes of the freely built buffers: the identifiers of two uint8 records
\* (also lengths and event codes), of the Button, Dimmer and Text records
\* (also ASCII text), and 0xFF, which is no identifier, event code or UTF-8
StreamBytes == { \H00, \H01, \H3A, \H3C, \H53, \HFF }

StreamBuffers == SeqsUpTo(StreamBytes, MaxLen)

\* header bytes, value bytes and text bytes of the single-record buffers
HeaderBytes == { \H05, \HA0 }
ValueBytes == { \H00, \HFF }
TextBytes == { \H68, \HC3, \HA9 }

\* bytes of a record's value part per wire type: uint8/sint8 1, uint16/sint16
\* 2, uint24/sint24 3, uint32/sint32 4, uint48 6, uint64 8
DeclaredWidth ==
    [ uint8 |-> 1, sint8 |-> 1, uint16 |-> 2, sint16 |-> 2, uint24 |-> 3,
      sint24 |-> 3, uint32 |-> 4, sint32 |-> 4, uint48 |-> 6, uint64 |-> 8 ]

\* the value parts of declared width holding a valid event code / valid
\* UTF-8, for the identifier c
WellFormedValues(c) ==
    LET row == ObjectIdRow(c)
        conv == row[3]
    IN  CASE conv \in {"int_from", "float_from"} ->
               SeqsOfLen(ValueBytes, DeclaredWidth[row[4]])
          [] conv = "read_bool" -> SeqsOfLen(ValueBytes, 1)
          [] conv = "read_button_event" -> { <<e[1]>> : e \in ButtonEvent }
          [] conv = "read_dimmer_event" ->
               { <<e[1], n>> : e \in DimmerEvent, n \in ValueBytes }
          [] conv = "read_bytes" ->
               UNION { { <<n>> \o t : t \in SeqsOfLen(TextBytes, n) } :
                       n \in 0..MaxText }
          [] conv = "read_text" ->
               UNION { { <<n>> \o t :
                           t \in { u \in SeqsOfLen(TextBytes, n) : ValidUtf8(u) } } :
                       n \in 0..MaxText }

SingleBuffers ==
    UNION { { <<h, c>> \o v : h \in HeaderBytes, v \in WellFormedValues(c) } :
            c \in ObjectIdCodes }

Buffers == StreamBuffers \cup SingleBuffers

\* decoder inputs: the scale factors of the catalog and arrays over WireBytes
Factors == { e[5] : e \in { r \in ObjectId : r[3] = "float_from" } }
WireBytes == { \H00, \H01, \HFF }

-----------------------------------------------------------------------------
(* Specification of the parser: parse_service_data called on a buffer *)

Init ==
    /\ data \in Buffers
    /\ cursor = 0
    /\ pc = "header"
    /\ objects = <<>>
    /\ flags = NoFlags
    /\ result = Pending
    /\ spans = <<>>
    /\ iters = 0
    /\ dec = "none"
    /\ wire = <<>>
    /\ out = [conv |-> "none"]

Next == ParseHeader \/ LoopIteration

Spec == Init /\ [][Next]_vars

-----------------------------------------------------------------------------
(* Specification of the value decoders: one int_from::/float_from::        *)
(* function applied to a reader positioned at the start of `wire`          *)

DecInit ==
    /\ dec \in BtTypes
    /\ wire \in SeqsOfLen(WireBytes, value_parsers[dec].rsize)
    /\ out = [conv |-> "none"]
    /\ data = <<>>
    /\ cursor = 0
    /\ pc = "idle"
    /\ objects = <<>>
    /\ flags = NoFlags
    /\ result = Pending
    /\ spans = <<>>
    /\ iters = 0

ApplyIntFrom ==
    /\ out.conv = "none"
    /\ out' = [conv |-> "int_from", r |-> int_from(dec, wire, 0)]
    /\ UNCHANGED <<data, cursor, pc, objects, flags, result, spans, iters,
                   dec, wire>>

ApplyFloatFrom ==
    /\ out.conv = "none"
    /\ \E factor \in Factors :
         out' = [conv |-> "float_from", factor |-> factor,
                 r |-> float_from(dec, wire, 0, factor)]
    /\ UNCHANGED <<data, cursor, pc, objects, flags, result, spans, iters,
                   dec, wire>>

DecNext == ApplyIntFrom \/ ApplyFloatFrom

DecSpec == DecInit /\ [][DecNext]_vars

-----------------------------------------------------------------------------
(* Properties *)

ButtonCodes == { e[1] : e \in ButtonEvent }
DimmerCodes == { e[1] : e \in DimmerEvent }

Returned == pc = "returned"
ReturnedOk == pc = "returned" /\ result.tag = "Ok"
ReturnedErr == pc = "returned" /\ result.tag = "Err"

\* cursor position at which the record after the pushed objects begins
RecordStart == 1 + Sum(spans)

\* the value part v has the width declared for identifier c and holds a
\* valid event code / valid UTF-8
HasDeclaredWidth(c, v) ==
    LET row == ObjectIdRow(c)
        conv == row[3]
    IN  CASE conv \in {"int_from", "float_from"} ->
               Len(v) = DeclaredWidth[row[4]]
          [] conv = "read_bool" -> Len(v) = 1
          [] conv = "read_button_event" -> Len(v) = 1 /\ v[1] \in ButtonCodes
          [] conv = "read_dimmer_event" -> Len(v) = 2 /\ v[1] \in DimmerCodes
          [] conv = "read_bytes" -> Len(v) >= 1 /\ Len(v) = 1 + v[1]
          [] conv = "read_text" ->
               Len(v) >= 1 /\ Len(v) = 1 + v[1] /\ ValidUtf8(Tail(v))

IsSingleRecord(d) ==
    /\ Len(d) >= 2
    /\ d[2] \in ObjectIdCodes
    /\ HasDeclaredWidth(d[2], SubSeq(d, 3, Len(d)))

\* C1: a buffer [header, id, value] whose value has the identifier's
\* declared width (and a valid event code / valid UTF-8) parses to Ok with
\* exactly one object, carrying that identifier.
C1_SingleRecordParses ==
    (Returned /\ IsSingleRecord(data)) =>
        /\ result.tag = "Ok"
        /\ Len(result.value.objects) = 1
        /\ result.value.objects[1].object_id = data[2]

RecordAt(d, p) ==
    IF p >= Len(d) THEN [rec |-> "end"]
    ELSE IF d[p + 1] \notin ObjectIdCodes
         THEN [rec |-> "bad", error |-> InvalidObjectId(d[p + 1])]
    ELSE LET o == value_from_raw(d[p + 1], d, p + 1)
         IN  IF o.ok THEN [rec |-> "good", pos |-> o.pos]
             ELSE [rec |-> "bad", error |-> o.error]

\* the first bad record from position p on, after j good ones
RECURSIVE FirstBadRecord(_, _, _)
FirstBadRecord(d, p, j) ==
    LET r == RecordAt(d, p)
    IN  CASE r.rec = "end" -> [bad |-> FALSE]
          [] r.rec = "bad" -> [bad |-> TRUE, error |-> r.error, index |-> j]
          [] r.rec = "good" -> FirstBadRecord(d, r.pos, j + 1)

C4_TruncationIsEof ==
    ReturnedOk =>
        parse_service_data(SubSeq(data, 1, Len(data) - 1)) = Err(UnexpectedEof)

C4_Witness ==
    /\ ReturnedOk
    /\ Len(result.value.objects) >= 2
    /\ result.value.objects[2].value.kind = "Text"

\* C5: a byte at an identifier position that is no catalog code makes the
\* call return InvalidObjectId of exactly that byte, whatever follows.
C5_UnknownIdentifierRejected ==
    [][ (pc = "loop" /\ cursor < Len(data)
           /\ data[cursor + 1] \notin ObjectIdCodes)
        => (pc' = "returned"
              /\ result' = Err(InvalidObjectId(data[cursor + 1]))) ]_vars

C5_Witness ==
    /\ ReturnedErr
    /\ Len(objects) >= 1
    /\ cursor = RecordStart + 1
    /\ result.error = InvalidObjectId(data[cursor])
    /\ cursor + 2 <= Len(data)
    /\ RecordAt(data, cursor).rec = "good"

\* C6: on Ok, trigger_based is true exactly when bit 2 of the header byte
\* is set.
C6_TriggerBasedIsBit2 ==
    ReturnedOk => (result.value.trigger_based <=> (Bit(data[1], 2) = 1))

\* C7: a complete Button (Dimmer) record whose event byte is outside the
\* enumeration makes the call return InvalidButtonEvent (InvalidDimmerEvent)
\* of that byte.
C7_InvalidEventCodeNamed ==
    (Returned /\ Len(data) >= 1) =>
        LET p == RecordStart
        IN  /\ (p + 2 <= Len(data) /\ data[p + 1] = \H3A
                  /\ data[p + 2] \notin ButtonCodes)
               => result = Err(InvalidButtonEvent(data[p + 2]))
            /\ (p + 3 <= Len(data) /\ data[p + 1] = \H3C
                  /\ data[p + 2] \notin DimmerCodes)
               => result = Err(InvalidDimmerEvent(data[p + 2]))

\* C8: the call ends with Ok or Err and never panics: the cursor stays
\* within the buffer, iterations and objects number at most the bytes of the
\* buffer, a call that has returned holds Ok or Err (and none before), and
\* every iteration that did not end the parse advanced the cursor by the
\* bytes of its record, at least one.
C8_TerminatesWithinBuffer ==
    /\ cursor <= Len(data)
    /\ iters <= Len(data)
    /\ Len(objects) <= iters
    /\ result.tag # "Panic"
    /\ (pc \in {"header", "loop"} => result.tag = "Pending")
    /\ (pc = "returned" => result.tag \in {"Ok", "Err"})
    /\ (pc = "loop" =>
          /\ iters = Len(spans)
          /\ cursor = 1 + Sum(spans)
          /\ \A i \in 1..Len(spans) : spans[i] >= 1)

C8_Witness ==
    /\ ReturnedOk
    /\ iters = 3
    /\ cursor = Len(data)

\* the wire types the catalog decodes as scaled floats
FloatTypes == { e[4] : e \in { r \in ObjectId : r[3] = "float_from" } }

\* C9: under one scaled-float identifier two different wire integers never
\* decode to the same Float.
C9_ScaledFloatInjective ==
    (/\ out.conv = "float_from"
     /\ \E e \in ObjectId :
          e[3] = "float_from" /\ e[4] = dec /\ e[5] = out.factor)
    => LET w == DeclaredWidth[dec]
       IN  \A other \in SeqsOfLen(WireBytes, Len(wire)) :
             SubSeq(other, 1, w) # SubSeq(wire, 1, w)
             => float_from(dec, other, 0, out.factor).value # out.r.value

\* the eight bytes of the declared-width little-endian integer widened to
\* 64 bits: zero-extended, or sign-extended for the sint types
Widened(bttype, bytes) ==
    LET w == DeclaredWidth[bttype]
        signed == bttype \in {"sint8", "sint16", "sint24", "sint32"}
        ext == IF signed /\ bytes[w] >= 128 THEN 255 ELSE 0
    IN  SubSeq(bytes, 1, w) \o [i \in 1..(8 - w) |-> ext]

\* C10: an integer decoder reads the bytes of its declared width and
\* returns their little-endian value widened to 64 bits, zero-extended for
\* the uint types and sign-extended from the declared width for the sint
\* types.
C10_IntDecodersWiden ==
    out.conv = "int_from" =>
        /\ out.r.ok
        /\ out.r.pos = DeclaredWidth[dec]
        /\ out.r.value = IntValue(Widened(dec, wire))

=============================================================================
